---- MODULE Spec2Model ----
(***************************************************************************)
(* protoc-gen-go-authz/parser.go: the authz rule parser.                   *)
(*                                                                         *)
(* A text is a sequence of lexemes.  A lexeme is either one character      *)
(* (brace, bracket, quote, slash, star, colon, comma, space, line break)   *)
(* or a word that the parser's regular expressions only ever match as a    *)
(* whole literal (rpc, returns, option, permissions, ...).  Offsets are    *)
(* Go's: 0-based, a slice t[a:b] is half-open.                             *)
(***************************************************************************)
EXTENDS Integers, Sequences, FiniteSets, TLC

SP == " "
NL == "\n"
DQ == "\""
SQ == "'"
EOF == "<eof>"
NoMatch == 0 - 1

Min(S) == CHOOSE x \in S : \A y \in S : x <= y

\* t[k] of Go; past the end nothing matches
Ch(t, k) == IF k >= 0 /\ k < Len(t) THEN t[k + 1] ELSE EOF

\* t[a:b] of Go
Slice(t, a, b) == SubSeq(t, a + 1, b)

\* \s of the regular expressions and the cutset of strings.TrimSpace
IsSpace(c) == c \in {SP, NL}

\* \s* followed by a literal that is no space: the offset of the first non-space at or after k
SkipSpace(t, k) == Min({j \in k..(IF k > Len(t) THEN k ELSE Len(t)) : ~IsSpace(Ch(t, j))})

\* the first offset at or after k holding lexeme c, or NoMatch
FirstOf(t, k, c) ==
    LET S == {j \in k..(Len(t) - 1) : t[j + 1] = c}
    IN  IF S = {} THEN NoMatch ELSE Min(S)

(***************************************************************************)
(* rpc\s+<name>\s*\([^)]*\)\s*returns\s*\([^)]*\)\s*\{                      *)
(* anchored at offset s: the offset just past the opening brace, or        *)
(* NoMatch.  Every piece is followed by a lexeme it cannot itself match,   *)
(* so the match at s is unique.                                            *)
(***************************************************************************)
RpcMatchAt(t, s, methodName) ==
    LET a == SkipSpace(t, s + 1)
        b == a + Len(methodName)
        c == SkipSpace(t, b)
        d == FirstOf(t, c + 1, ")")
        e == SkipSpace(t, d + 1)
        f == SkipSpace(t, e + 1)
        g == FirstOf(t, f + 1, ")")
        h == SkipSpace(t, g + 1)
    IN  IF /\ Ch(t, s) = "rpc"
           /\ a > s + 1
           /\ b <= Len(t)
           /\ Slice(t, a, b) = methodName
           /\ Ch(t, c) = "("
           /\ d # NoMatch
           /\ Ch(t, e) = "returns"
           /\ Ch(t, f) = "("
           /\ g # NoMatch
           /\ Ch(t, h) = "{"
        THEN h + 1
        ELSE NoMatch

\* rpcRegex.FindStringIndex(content)[1]: the end of the leftmost match, or NoMatch
RpcMatchEnd(t, methodName) ==
    LET S == {s \in 0..(Len(t) - 1) : RpcMatchAt(t, s, methodName) # NoMatch}
    IN  IF S = {} THEN NoMatch ELSE RpcMatchAt(t, Min(S), methodName)

(***************************************************************************)
(* option\s*\(\s*proto\.v1\.authz\s*\)\s*=\s*\{                             *)
(***************************************************************************)
AuthzStartAt(t, s) ==
    LET a == SkipSpace(t, s + 1)
        b == SkipSpace(t, a + 1)
        c == SkipSpace(t, b + 1)
        d == SkipSpace(t, c + 1)
        e == SkipSpace(t, d + 1)
    IN  IF /\ Ch(t, s) = "option"
           /\ Ch(t, a) = "("
           /\ Ch(t, b) = "proto.v1.authz"
           /\ Ch(t, c) = ")"
           /\ Ch(t, d) = "="
           /\ Ch(t, e) = "{"
        THEN e + 1
        ELSE NoMatch

\* authzStartRegex.FindStringIndex(methodBody)[1], or NoMatch
AuthzStartEnd(t) ==
    LET S == {s \in 0..(Len(t) - 1) : AuthzStartAt(t, s) # NoMatch}
    IN  IF S = {} THEN NoMatch ELSE AuthzStartAt(t, Min(S))

(***************************************************************************)
(* The brace loop, run to its exit from (pos, braceCount): the pair        *)
(* <<pos, braceCount>> the loop leaves.                                    *)
(***************************************************************************)
\* BraceStep with the opening brace forgotten
BraceStepNoOpen(c, n) == IF c = "}" THEN n - 1 ELSE n

\* the switch of the loop body: the count after reading lexeme c
BraceStep(c, n) ==
    CASE c = "{" -> n + 1
      [] c = "}" -> n - 1
      [] OTHER -> n

RECURSIVE ScanBraces(_, _, _)
ScanBraces(t, p, n) ==
    IF p < Len(t) /\ n > 0
    THEN ScanBraces(t, p + 1, BraceStep(Ch(t, p), n))
    ELSE <<p, n>>

(***************************************************************************)
(* (?m)^\s*//.*$ replaced by the empty string, everywhere.                 *)
(***************************************************************************)
\* (?m)^ : the start of the text or just after a line break
IsLineStart(t, s) == s = 0 \/ Ch(t, s - 1) = NL

\* the end of the match anchored at s (the line break that ends it, or the end of the text), or NoMatch
LineCommentAt(t, s) ==
    LET a == SkipSpace(t, s)
        e == FirstOf(t, a + 2, NL)
    IN  IF IsLineStart(t, s) /\ Ch(t, a) = "/" /\ Ch(t, a + 1) = "/"
        THEN (IF e = NoMatch THEN Len(t) ELSE e)
        ELSE NoMatch

RECURSIVE StripLineFrom(_, _)
StripLineFrom(t, k) ==
    LET S == {s \in k..(Len(t) - 1) : LineCommentAt(t, s) # NoMatch}
    IN  IF S = {} THEN Slice(t, k, Len(t))
        ELSE Slice(t, k, Min(S)) \o StripLineFrom(t, LineCommentAt(t, Min(S)))

StripLineComments(t) == StripLineFrom(t, 0)

(***************************************************************************)
(* /\*[\s\S]*?\*/ replaced by the empty string, everywhere.                *)
(***************************************************************************)
\* the end of the match anchored at s: past the first */ that starts at s+2 or later, or NoMatch
BlockCommentAt(t, s) ==
    LET E == {e \in (s + 2)..(Len(t) - 2) : t[e + 1] = "*" /\ t[e + 2] = "/"}
    IN  IF Ch(t, s) = "/" /\ Ch(t, s + 1) = "*" /\ E # {}
        THEN Min(E) + 2
        ELSE NoMatch

RECURSIVE StripBlockFrom(_, _)
StripBlockFrom(t, k) ==
    LET S == {s \in k..(Len(t) - 1) : BlockCommentAt(t, s) # NoMatch}
    IN  IF S = {} THEN Slice(t, k, Len(t))
        ELSE Slice(t, k, Min(S)) \o StripBlockFrom(t, BlockCommentAt(t, Min(S)))

StripBlockComments(t) == StripBlockFrom(t, 0)

\* lines 170-177: line comments first, block comments second
StripComments(authzBody) == StripBlockComments(StripLineComments(authzBody))

(***************************************************************************)
(* permissions\s*:\s*\[(.*?)\]   (. matches no line break)                 *)
(***************************************************************************)
\* the capture group of the match anchored at s as <<from, to>>, or <<NoMatch, NoMatch>>
PermissionsAt(t, s) ==
    LET a == SkipSpace(t, s + 1)
        b == SkipSpace(t, a + 1)
        e == FirstOf(t, b + 1, "]")
    IN  IF /\ Ch(t, s) = "permissions"
           /\ Ch(t, a) = ":"
           /\ Ch(t, b) = "["
           /\ e # NoMatch
           /\ \A j \in (b + 1)..(e - 1) : t[j + 1] # NL
        THEN <<b + 1, e>>
        ELSE <<NoMatch, NoMatch>>

\* permissionsRegex.FindStringSubmatch(authzBody): <<TRUE, group 1>> or <<FALSE, <<>> >>
PermissionsSubmatch(t) ==
    LET S == {s \in 0..(Len(t) - 1) : PermissionsAt(t, s)[1] # NoMatch}
    IN  IF S = {} THEN <<FALSE, <<>> >>
        ELSE LET m == PermissionsAt(t, Min(S)) IN <<TRUE, Slice(t, m[1], m[2])>>

(***************************************************************************)
(* no_auth_required\s*:\s*(true|false)                                     *)
(***************************************************************************)
NoAuthAt(t, s) ==
    LET a == SkipSpace(t, s + 1)
        b == SkipSpace(t, a + 1)
    IN  IF /\ Ch(t, s) = "no_auth_required"
           /\ Ch(t, a) = ":"
           /\ Ch(t, b) \in {"true", "false"}
        THEN Ch(t, b)
        ELSE EOF

\* noAuthRegex.FindStringSubmatch(authzBody): <<TRUE, group 1>> or <<FALSE, EOF>>
NoAuthSubmatch(t) ==
    LET S == {s \in 0..(Len(t) - 1) : NoAuthAt(t, s) # EOF}
    IN  IF S = {} THEN <<FALSE, EOF>> ELSE <<TRUE, NoAuthAt(t, Min(S))>>

(***************************************************************************)
(* strings.TrimSpace, strings.Trim(s, cutset), strings.Split(s, ",")       *)
(***************************************************************************)
Trim(s, cutset) ==
    LET K == {k \in 1..Len(s) : s[k] \notin cutset}
    IN  IF K = {} THEN <<>>
        ELSE SubSeq(s, Min(K), CHOOSE k \in K : \A j \in K : j <= k)

TrimSpace(s) == Trim(s, {SP, NL})

RECURSIVE Split(_)
Split(s) ==
    LET c == FirstOf(s, 0, ",")
    IN  IF c = NoMatch THEN <<s>>
        ELSE <<Slice(s, 0, c)>> \o Split(Slice(s, c + 1, Len(s)))

\* CleanPermission with the double quotes left on
CleanPermissionKeepsQuotes(perm) == Trim(TrimSpace(perm), {SQ})

\* lines 215-223: the cleaning of one element
CleanPermission(perm) == Trim(Trim(TrimSpace(perm), {DQ}), {SQ})

RECURSIVE KeepNonEmpty(_)
KeepNonEmpty(ps) ==
    IF ps = <<>> THEN <<>>
    ELSE (IF CleanPermission(Head(ps)) # <<>> THEN <<CleanPermission(Head(ps))>> ELSE <<>>)
         \o KeepNonEmpty(Tail(ps))

parsePermissionsString(permissionsStr) ==
    IF TrimSpace(permissionsStr) = <<>> THEN <<>>
    ELSE KeepNonEmpty(Split(TrimSpace(permissionsStr)))

\* lines 179-188
ExtractPermissions(authzBody) ==
    LET m == PermissionsSubmatch(authzBody)
    IN  IF m[1] THEN parsePermissionsString(m[2]) ELSE <<>>

\* lines 190-196
ExtractNoAuth(authzBody) ==
    LET m == NoAuthSubmatch(authzBody)
    IN  IF m[1] THEN m[2] = "true" ELSE FALSE

(***************************************************************************)
(* The HTTP binding message.  A message is a function from the names of    *)
(* the fields that are set to their values; the descriptor lists the       *)
(* fields of google.api.HttpRule in declaration order.                     *)
(***************************************************************************)
HttpRuleFields ==
    <<"selector", "get", "put", "post", "delete", "patch", "custom", "body",
      "response_body", "additional_bindings">>

VerbNames == {"get", "post", "put", "delete", "patch"}

\* VerbOf with the verbs of put and post exchanged
VerbOfSwapped(fieldName) ==
    CASE fieldName = "get" -> "GET"
      [] fieldName = "post" -> "PUT"
      [] fieldName = "put" -> "POST"
      [] fieldName = "delete" -> "DELETE"
      [] fieldName = "patch" -> "PATCH"

\* the switch of lines 269-285
VerbOf(fieldName) ==
    CASE fieldName = "get" -> "GET"
      [] fieldName = "post" -> "POST"
      [] fieldName = "put" -> "PUT"
      [] fieldName = "delete" -> "DELETE"
      [] fieldName = "patch" -> "PATCH"

\* reflectMsg.Has(field)
Has(msg, fieldName) == fieldName \in DOMAIN msg

\* the loop of lines 262-288 run from field index i: <<ok, path, verb>>
RECURSIVE ResolveFrom(_, _)
ResolveFrom(msg, i) ==
    IF i >= Len(HttpRuleFields) THEN <<FALSE, "", "">>
    ELSE LET f == HttpRuleFields[i + 1]
         IN  IF Has(msg, f) /\ f \in VerbNames
             THEN <<TRUE, msg[f], VerbOf(f)>>
             ELSE ResolveFrom(msg, i + 1)

\* extractHTTPInfo on a method's options [ext, msg]
extractHTTPInfo(http) ==
    IF http.ext THEN ResolveFrom(http.msg, 0) ELSE <<FALSE, "", "">>

(***************************************************************************)
(* extractAuthzFromProtoFile as a function of the file: [ok, permissions,  *)
(* noAuthRequired].                                                        *)
(***************************************************************************)
AuthzFailed == [ok |-> FALSE, permissions |-> <<>>, noAuthRequired |-> FALSE]

ExtractFromBody(body) ==
    LET st == AuthzStartEnd(body)
        sc == ScanBraces(body, st, 1)
        ab == StripComments(Slice(body, st, sc[1] - 1))
    IN  IF st = NoMatch \/ sc[2] # 0 THEN AuthzFailed
        ELSE [ok |-> TRUE, permissions |-> ExtractPermissions(ab),
              noAuthRequired |-> ExtractNoAuth(ab)]

extractAuthzFromProtoFile(canRead, text, methodName) ==
    LET m == RpcMatchEnd(text, methodName)
        sc == ScanBraces(text, m, 1)
    IN  IF ~canRead \/ m = NoMatch \/ sc[2] # 0 THEN AuthzFailed
        ELSE ExtractFromBody(Slice(text, m, sc[1] - 1))

\* parseMethod as a function: the rules (none or one) of a method
parseMethod(canRead, text, method) ==
    LET a == extractAuthzFromProtoFile(canRead, text, method.name)
        h == extractHTTPInfo(method.http)
    IN  IF a.ok /\ h[1]
        THEN <<[HTTPPath |-> h[2], HTTPMethod |-> h[3],
                Permissions |-> a.permissions, NoAuthRequired |-> a.noAuthRequired]>>
        ELSE <<>>

(***************************************************************************)
(* Inputs: proto source files and the descriptors compiled from them.      *)
(***************************************************************************)
MaxFrags == 2
MaxInner == 3
MaxPerms == 2

SeqsUpTo(S, n) == UNION {[1..k -> S] : k \in 0..n}

RECURSIVE Flatten(_)
Flatten(ss) == IF ss = <<>> THEN <<>> ELSE Head(ss) \o Flatten(Tail(ss))

NameGet == <<"Get">>
NameGetAll == <<"Get", "All">>
NameList == <<"List">>

Signature(name) == <<"rpc", SP>> \o name \o <<"(", "T", ")", SP, "returns", SP, "(", "T", ")">>
Header(name) == Signature(name) \o <<SP, "{">>

\* one rpc declaration; m = [name, hasBody, body, ...]
DeclText(m) ==
    IF m.hasBody THEN Header(m.name) \o <<NL>> \o m.body \o <<"}", NL>>
    ELSE Signature(m.name) \o <<";", NL>>

HttpOption ==
    <<"option", SP, "(", "google.api.http", ")", SP, "=", SP, "{", "post", ":", SP,
      DQ, "/", "{", "id", "}", DQ, "}", ";", NL>>

AuthzOption(block) ==
    <<"option", SP, "(", "proto.v1.authz", ")", SP, "=", SP, "{">> \o block \o <<"}", ";", NL>>

PermList(name) == <<"permissions", ":", SP, "[", DQ, name, DQ, "]">>
NoAuthTrue == <<"no_auth_required", ":", SP, "true">>
LineComment(txt) == <<"/", "/", SP>> \o txt
BlockComment(txt) == <<"/", "*", SP>> \o txt \o <<SP, "*", "/">>

\* what may stand in the body of the first method of a file
BodyMenu ==
    { HttpOption,
      AuthzOption(PermList("a")),
      AuthzOption(NoAuthTrue),
      LineComment(<<"}", NL>>),
      LineComment(<<"{", NL>>),
      LineComment(AuthzOption(PermList("x"))),
      LineComment(Header(NameGetAll) \o <<NL>>) }

\* bodies without braces or option headers inside commentary
CleanBodies ==
    { HttpOption,
      HttpOption \o AuthzOption(NoAuthTrue),
      AuthzOption(PermList("b")) \o HttpOption }

\* what may stand inside an authz block
InnerMenu ==
    { PermList("a"),
      <<NL>>,
      <<SP>> \o LineComment(NoAuthTrue),
      LineComment(PermList("x")),
      BlockComment(PermList("x")),
      BlockComment(NoAuthTrue) }

Binding(field, path) == [ext |-> TRUE, msg |-> (field :> path) @@ ("body" :> "*")]
NoBinding == [ext |-> FALSE, msg |-> ("body" :> "*")]

\* the layout of an authz block: spaces around the colon and before the bracket (outer),
\* spaces around each element (inner), a quote per element, the order of the two keys
Spaces == {<<>>, <<SP>>, <<NL>>}
Layouts ==
    { [outer |-> <<>>, inner |-> <<>>], [outer |-> <<SP>>, inner |-> <<SP>>],
      [outer |-> <<NL>>, inner |-> <<SP>>], [outer |-> <<SP>>, inner |-> <<NL>>] }

RECURSIVE RenderElems(_, _, _)
RenderElems(elems, quotes, inner) ==
    IF elems = <<>> THEN <<>>
    ELSE inner \o <<Head(quotes)>> \o Head(elems) \o <<Head(quotes)>> \o inner
         \o (IF Len(elems) > 1 THEN <<",">> ELSE <<>>)
         \o RenderElems(Tail(elems), Tail(quotes), inner)

RenderPerms(d) ==
    IF d.hasPerms
    THEN <<"permissions">> \o d.outer \o <<":">> \o d.outer \o <<"[">>
         \o (IF d.perms = <<>> THEN d.inner ELSE RenderElems(d.perms, d.quotes, d.inner))
         \o <<"]">>
    ELSE <<>>

RenderFlag(d) ==
    IF d.hasFlag
    THEN <<"no_auth_required">> \o d.outer \o <<":">> \o d.outer
         \o <<IF d.flag THEN "true" ELSE "false">>
    ELSE <<>>

\* the authz block a declaration d is written as
RenderBlock(d) ==
    IF d.permsFirst THEN d.outer \o RenderPerms(d) \o <<SP>> \o RenderFlag(d) \o d.outer
    ELSE d.outer \o RenderFlag(d) \o <<SP>> \o RenderPerms(d) \o d.outer

\* the serialization format of the field parsers:
\* permissions: ["p1", ..., "pn"] no_auth_required: <bool>
RECURSIVE JoinQuoted(_)
JoinQuoted(perms) ==
    IF perms = <<>> THEN <<>>
    ELSE <<DQ>> \o Head(perms) \o <<DQ>>
         \o (IF Len(perms) > 1 THEN <<",", SP>> ELSE <<>>) \o JoinQuoted(Tail(perms))

Serialize(perms, flag) ==
    <<"permissions", ":", SP, "[">> \o JoinQuoted(perms)
    \o <<"]", SP, "no_auth_required", ":", SP, IF flag THEN "true" ELSE "false">>

Canonical(perms, flag) ==
    [hasPerms |-> TRUE, perms |-> perms, quotes |-> [i \in 1..Len(perms) |-> DQ],
     hasFlag |-> TRUE, flag |-> flag, permsFirst |-> TRUE,
     outer |-> <<>>, inner |-> <<>>]

NoDecl == [hasPerms |-> FALSE, perms |-> <<>>, quotes |-> <<>>, hasFlag |-> FALSE,
           flag |-> FALSE, permsFirst |-> TRUE, outer |-> <<>>, inner |-> <<>>]

ServiceOpen == <<"service", SP, "S", SP, "{", NL>>
ServiceClose == <<"}", NL>>

RECURSIVE Decls(_)
Decls(ms) == IF ms = <<>> THEN <<>> ELSE DeclText(Head(ms)) \o Decls(Tail(ms))

\* a file of two services: the first holds the first cut methods, the second the others
FileText(pre, ms, cut) ==
    pre \o ServiceOpen \o Decls(SubSeq(ms, 1, cut)) \o ServiceClose
        \o ServiceOpen \o Decls(SubSeq(ms, cut + 1, Len(ms))) \o ServiceClose

\* the offset at which the declaration of method i starts
DeclStart(pre, ms, cut, i) ==
    Len(pre) + Len(ServiceOpen) + Len(Decls(SubSeq(ms, 1, i - 1)))
    + (IF i > cut THEN Len(ServiceClose) + Len(ServiceOpen) ELSE 0)

\* where the braces of method i's own body stand in the file
OwnBraces(pre, ms, cut, i) ==
    LET st == DeclStart(pre, ms, cut, i)
        h == Len(Header(ms[i].name))
    IN  IF ms[i].hasBody
        THEN [open |-> st + h - 1, close |-> st + h + 1 + Len(ms[i].body)]
        ELSE [open |-> NoMatch, close |-> NoMatch]

Descriptor(m) == [name |-> m.name, http |-> m.http]

Input(family, pre, ms, cut, canRead, d) ==
    [family |-> family,
     text |-> FileText(pre, ms, cut),
     readable |-> canRead,
     services |-> << [i \in 1..cut |-> Descriptor(ms[i])],
                     [i \in 1..(Len(ms) - cut) |-> Descriptor(ms[cut + i])] >>,
     own |-> [i \in 1..Len(ms) |-> OwnBraces(pre, ms, cut, i)],
     decl |-> d]

Method(name, body, http) ==
    [name |-> name, hasBody |-> TRUE, body |-> body, http |-> http]
NoBodyMethod(name, http) ==
    [name |-> name, hasBody |-> FALSE, body |-> <<>>, http |-> http]

StandardBody == HttpOption \o AuthzOption(PermList("a"))

\* two methods: the first with any fragments, commentary included, the second clean
FilesFamily ==
    { Input("files", <<>>,
            << Method(NameGet, Flatten(fs), h), second >>, 1, TRUE, NoDecl) :
        fs \in SeqsUpTo(BodyMenu, MaxFrags),
        h \in {NoBinding, Binding("post", "/get")},
        second \in {Method(NameGetAll, b, Binding("get", "/all")) : b \in CleanBodies}
                   \cup {NoBodyMethod(NameGetAll, Binding("get", "/all"))} }

\* three well-formed methods, with or without an HTTP binding, in one or two services,
\* with or without a comment before the first rpc, the file readable or not
TriplesFamily ==
    { Input("triples", pre,
            << Method(NameGet, StandardBody, hs[1]),
               Method(NameGetAll, HttpOption \o AuthzOption(NoAuthTrue), hs[2]),
               Method(NameList, last, hs[3]) >>,
            cr[1], cr[2], NoDecl) :
        last \in {AuthzOption(PermList("b")) \o HttpOption, HttpOption},
        hs \in {NoBinding, Binding("post", "/get")} \X {NoBinding, Binding("get", "/all")}
               \X {NoBinding, Binding("delete", "/list")},
        cr \in ((0..3) \X {TRUE}) \cup {<<1, FALSE>>},
        pre \in {<<>>, LineComment(PermList("x") \o <<SP, "}", NL>>)} }

\* what a block of fields and commentary declares: a permissions key when the list stands
\* in it outside commentary, never a no_auth_required key
Live(is) ==
    IF \E i \in 1..Len(is) : is[i] = PermList("a")
    THEN [NoDecl EXCEPT !.hasPerms = TRUE, !.perms = << <<"a">> >>, !.quotes = <<DQ>>]
    ELSE NoDecl

\* one method whose authz block holds fields and commentary
DecoysFamily ==
    { Input("decoys", <<>>,
            << Method(NameGet, HttpOption \o AuthzOption(Flatten(is)),
                      Binding("post", "/get")) >>, 1, TRUE, Live(is)) :
        is \in SeqsUpTo(InnerMenu, MaxInner) }

\* one method whose authz block is a declaration written in some layout
LayoutDecls ==
    { [hasPerms |-> hp, perms |-> ps, quotes |-> qs, hasFlag |-> hf, flag |-> fl,
       permsFirst |-> pf, outer |-> l.outer, inner |-> l.inner] :
        hp \in BOOLEAN, hf \in BOOLEAN, fl \in BOOLEAN, pf \in BOOLEAN, l \in Layouts,
        ps \in SeqsUpTo({<<"a">>, <<"read", ":", "all">>}, MaxPerms),
        qs \in SeqsUpTo({DQ, SQ}, MaxPerms) }

LayoutFamily ==
    { Input("layout", <<>>,
            << Method(NameGet, HttpOption \o AuthzOption(RenderBlock(d)),
                      Binding("post", "/get")) >>, 1, TRUE, d) :
        d \in {x \in LayoutDecls : /\ Len(x.quotes) = Len(x.perms)
                                   /\ (~x.hasPerms => x.perms = <<>>)
                                   /\ (~x.hasFlag => ~x.flag)
                                   /\ (~(x.hasPerms /\ x.hasFlag) => x.permsFirst)} }

\* one method whose authz block is the serialization of a pair
PermissionStrings ==
    { <<"a">>, <<"read", ":", "all">>, <<>>, <<"a", ",", "b">>, <<SQ, "a", SQ>>,
      <<"no_auth_required", ":", "true">> }

RoundTripFamily ==
    { Input("roundtrip", <<>>,
            << Method(NameGet, HttpOption \o AuthzOption(Serialize(ps, f)),
                      Binding("post", "/get")) >>, 1, TRUE, Canonical(ps, f)) :
        ps \in SeqsUpTo(PermissionStrings, MaxPerms), f \in BOOLEAN }

\* one standard method and every binding message over seven of the fields
PathOf(field) ==
    [selector |-> "/selector", get |-> "/get", put |-> "/put", post |-> "/post",
     delete |-> "/delete", patch |-> "/patch", body |-> "/body"][field]
HttpFamily ==
    { Input("http", <<>>,
            << Method(NameGet, StandardBody,
                      [ext |-> TRUE, msg |-> [f \in S |-> PathOf(f)]]) >>,
            1, TRUE, NoDecl) :
        S \in SUBSET {"selector", "get", "put", "post", "delete", "patch", "body"} }

Inputs ==
    FilesFamily \cup TriplesFamily \cup DecoysFamily \cup LayoutFamily
    \cup RoundTripFamily \cup HttpFamily

(***************************************************************************)
(* The run of parseFile over one file.                                     *)
(***************************************************************************)
VARIABLES
    fileText,        \* what os.ReadFile finds at the file's path
    readable,        \* whether os.ReadFile succeeds
    services,        \* file.Services: per service, its methods [name, http]
    gen,             \* how the file was written: [family, own, decl]
    pc,              \* the statement the run is at
    si, mi,          \* the indices of the loops of parseFile and parseService
    rules,           \* rules of parseFile
    serviceRules,    \* rules of parseService
    content, openBrace, braceCount, pos, methodBody,
    authzStartPos, authzBraceCount, authzCurPos, authzBody,
    permissions, noAuthRequired,
    fi,              \* the index of the loop of extractHTTPInfoFromRule
    httpPath, httpMethod,
    stage,           \* per method: Pending, Start, AuthzExtracted, HTTPResolved, RuleEmitted, Skipped
    authzResult      \* per method: what extractAuthzFromProtoFile returned, once it has

inputVars == <<fileText, readable, services, gen>>
loopVars == <<si, mi, rules, serviceRules>>
bodyVars == <<content, openBrace, braceCount, pos, methodBody>>
authzVars == <<authzStartPos, authzBraceCount, authzCurPos, authzBody>>
fieldVars == <<permissions, noAuthRequired>>
httpVars == <<fi, httpPath, httpMethod>>
vars == <<inputVars, pc, loopVars, bodyVars, authzVars, fieldVars, httpVars, stage, authzResult>>

Methods == Flatten(services)
NMethods == Len(Methods)

\* the number of the method the run is at, counted through the file
RECURSIVE MethodsBefore(_)
MethodsBefore(s) == IF s = 0 THEN 0 ELSE Len(services[s]) + MethodsBefore(s - 1)
Cur == MethodsBefore(si) + mi + 1
CurMethod == services[si + 1][mi + 1]

NotReturned == [ok |-> FALSE, permissions |-> <<>>, noAuthRequired |-> FALSE, returned |-> FALSE]
Returned(r) == [ok |-> r.ok, permissions |-> r.permissions,
                noAuthRequired |-> r.noAuthRequired, returned |-> TRUE]

Init ==
    /\ \E in \in Inputs :
        /\ fileText = in.text
        /\ readable = in.readable
        /\ services = in.services
        /\ gen = [family |-> in.family, own |-> in.own, decl |-> in.decl]
        /\ stage = [k \in 1..Len(in.own) |-> "Pending"]
        /\ authzResult = [k \in 1..Len(in.own) |-> NotReturned]
    /\ pc = "parseFile"
    /\ si = 0 /\ mi = 0
    /\ rules = <<>> /\ serviceRules = <<>>
    /\ content = <<>> /\ openBrace = 0 /\ braceCount = 0 /\ pos = 0 /\ methodBody = <<>>
    /\ authzStartPos = 0 /\ authzBraceCount = 0 /\ authzCurPos = 0 /\ authzBody = <<>>
    /\ permissions = <<>> /\ noAuthRequired = FALSE
    /\ fi = 0 /\ httpPath = "" /\ httpMethod = ""

\* parseFile, lines 33-36: the next service is handed to parseService
StartService ==
    /\ pc = "parseFile" /\ si < Len(services)
    /\ pc' = "parseService"
    /\ mi' = 0 /\ serviceRules' = <<>>
    /\ UNCHANGED <<inputVars, si, rules, bodyVars, authzVars, fieldVars, httpVars, stage, authzResult>>

\* parseFile, line 39
FinishFile ==
    /\ pc = "parseFile" /\ si >= Len(services)
    /\ pc' = "done"
    /\ UNCHANGED <<inputVars, loopVars, bodyVars, authzVars, fieldVars, httpVars, stage, authzResult>>

\* FinishService with the service's rules put in front
FinishServicePrepends ==
    /\ pc = "parseService" /\ mi >= Len(services[si + 1])
    /\ rules' = serviceRules \o rules
    /\ serviceRules' = <<>>
    /\ si' = si + 1
    /\ pc' = "parseFile"
    /\ UNCHANGED <<inputVars, mi, bodyVars, authzVars, fieldVars, httpVars, stage, authzResult>>

\* parseService, line 56, and parseFile, line 36: the service's rules are appended
FinishService ==
    /\ pc = "parseService" /\ mi >= Len(services[si + 1])
    /\ rules' = rules \o serviceRules
    /\ serviceRules' = <<>>
    /\ si' = si + 1
    /\ pc' = "parseFile"
    /\ UNCHANGED <<inputVars, mi, bodyVars, authzVars, fieldVars, httpVars, stage, authzResult>>

\* parseService, lines 46-48: the next method is handed to parseMethod, with fresh locals
StartMethod ==
    /\ pc = "parseService" /\ mi < Len(services[si + 1])
    /\ stage' = [stage EXCEPT ![Cur] = "Start"]
    /\ pc' = "readFile"
    /\ content' = <<>> /\ openBrace' = 0 /\ braceCount' = 0 /\ pos' = 0 /\ methodBody' = <<>>
    /\ authzStartPos' = 0 /\ authzBraceCount' = 0 /\ authzCurPos' = 0 /\ authzBody' = <<>>
    /\ permissions' = <<>> /\ noAuthRequired' = FALSE
    /\ fi' = 0 /\ httpPath' = "" /\ httpMethod' = ""
    /\ UNCHANGED <<inputVars, loopVars, authzResult>>

\* Continue with the error ignored: the zero rule parseMethod returned is appended
ContinueAppends ==
    /\ stage' = [stage EXCEPT ![Cur] = "Skipped"]
    /\ mi' = mi + 1
    /\ pc' = "parseService"
    /\ serviceRules' = Append(serviceRules,
            [HTTPPath |-> "", HTTPMethod |-> "", Permissions |-> <<>>, NoAuthRequired |-> FALSE])
    /\ UNCHANGED <<inputVars, si, rules>>

\* an error return of parseMethod and the continue of parseService, lines 49-52
Continue ==
    /\ stage' = [stage EXCEPT ![Cur] = "Skipped"]
    /\ mi' = mi + 1
    /\ pc' = "parseService"
    /\ UNCHANGED <<inputVars, si, rules, serviceRules>>

\* an error return of extractAuthzFromProtoFile, through parseMethod, lines 64-66
AuthzError ==
    /\ authzResult' = [authzResult EXCEPT ![Cur] = Returned(AuthzFailed)]
    /\ Continue

\* lines 105-108
ReadFileFails ==
    /\ pc = "readFile" /\ ~readable
    /\ AuthzError
    /\ UNCHANGED <<bodyVars, authzVars, fieldVars, httpVars>>

ReadFile ==
    /\ pc = "readFile" /\ readable
    /\ content' = fileText
    /\ pc' = "findRpc"
    /\ UNCHANGED <<inputVars, loopVars, openBrace, braceCount, pos, methodBody,
                   authzVars, fieldVars, httpVars, stage, authzResult>>

\* lines 111-117
RpcNotFound ==
    /\ pc = "findRpc" /\ RpcMatchEnd(content, CurMethod.name) = NoMatch
    /\ AuthzError
    /\ UNCHANGED <<bodyVars, authzVars, fieldVars, httpVars>>

\* lines 111-122
RpcFound ==
    /\ pc = "findRpc" /\ RpcMatchEnd(content, CurMethod.name) # NoMatch
    /\ openBrace' = RpcMatchEnd(content, CurMethod.name) - 1
    /\ braceCount' = 1
    /\ pos' = openBrace' + 1
    /\ pc' = "scanBody"
    /\ UNCHANGED <<inputVars, loopVars, content, methodBody, authzVars, fieldVars, httpVars,
                   stage, authzResult>>

\* lines 124-132: one turn of the loop
ScanBodyStep ==
    /\ pc = "scanBody" /\ pos < Len(content) /\ braceCount > 0
    /\ braceCount' = BraceStep(Ch(content, pos), braceCount)
    /\ pos' = pos + 1
    /\ UNCHANGED <<inputVars, pc, loopVars, content, openBrace, methodBody, authzVars,
                   fieldVars, httpVars, stage, authzResult>>

\* lines 134-136
BodyUnmatched ==
    /\ pc = "scanBody" /\ ~(pos < Len(content) /\ braceCount > 0)
    /\ braceCount # 0
    /\ AuthzError
    /\ UNCHANGED <<bodyVars, authzVars, fieldVars, httpVars>>

\* line 138
BodyMatched ==
    /\ pc = "scanBody" /\ ~(pos < Len(content) /\ braceCount > 0)
    /\ braceCount = 0
    /\ methodBody' = Slice(content, openBrace + 1, pos - 1)
    /\ pc' = "findAuthz"
    /\ UNCHANGED <<inputVars, loopVars, content, openBrace, braceCount, pos, authzVars,
                   fieldVars, httpVars, stage, authzResult>>

\* lines 142-147
AuthzNotFound ==
    /\ pc = "findAuthz" /\ AuthzStartEnd(methodBody) = NoMatch
    /\ AuthzError
    /\ UNCHANGED <<bodyVars, authzVars, fieldVars, httpVars>>

\* lines 142-152
AuthzFound ==
    /\ pc = "findAuthz" /\ AuthzStartEnd(methodBody) # NoMatch
    /\ authzStartPos' = AuthzStartEnd(methodBody)
    /\ authzBraceCount' = 1
    /\ authzCurPos' = authzStartPos'
    /\ pc' = "scanAuthz"
    /\ UNCHANGED <<inputVars, loopVars, bodyVars, authzBody, fieldVars, httpVars, stage, authzResult>>

\* lines 154-162: one turn of the loop
ScanAuthzStep ==
    /\ pc = "scanAuthz" /\ authzCurPos < Len(methodBody) /\ authzBraceCount > 0
    /\ authzBraceCount' = BraceStep(Ch(methodBody, authzCurPos), authzBraceCount)
    /\ authzCurPos' = authzCurPos + 1
    /\ UNCHANGED <<inputVars, pc, loopVars, bodyVars, authzStartPos, authzBody, fieldVars,
                   httpVars, stage, authzResult>>

\* lines 164-168: the loop is left; unmatched braces are an error
AuthzScanEnd ==
    /\ pc = "scanAuthz" /\ ~(authzCurPos < Len(methodBody) /\ authzBraceCount > 0)
    /\ IF authzBraceCount # 0
       THEN /\ AuthzError
            /\ UNCHANGED <<bodyVars, authzVars, fieldVars, httpVars>>
       ELSE /\ authzBody' = Slice(methodBody, authzStartPos, authzCurPos - 1)
            /\ pc' = "stripComments"
            /\ UNCHANGED <<inputVars, loopVars, bodyVars, authzStartPos, authzBraceCount,
                           authzCurPos, fieldVars, httpVars, stage, authzResult>>

\* lines 170-177
RemoveComments ==
    /\ pc = "stripComments"
    /\ authzBody' = StripComments(authzBody)
    /\ pc' = "extractFields"
    /\ UNCHANGED <<inputVars, loopVars, bodyVars, authzStartPos, authzBraceCount, authzCurPos,
                   fieldVars, httpVars, stage, authzResult>>

\* lines 179-199, and the return into parseMethod, lines 62-66
ExtractFields ==
    /\ pc = "extractFields"
    /\ permissions' = ExtractPermissions(authzBody)
    /\ noAuthRequired' = ExtractNoAuth(authzBody)
    /\ authzResult' = [authzResult EXCEPT ![Cur] =
            Returned([ok |-> TRUE, permissions |-> permissions',
                      noAuthRequired |-> noAuthRequired'])]
    /\ stage' = [stage EXCEPT ![Cur] = "AuthzExtracted"]
    /\ pc' = "extractHTTPInfo"
    /\ UNCHANGED <<inputVars, loopVars, bodyVars, authzVars, httpVars>>

\* NoHTTPAnnotation with the loop of parseService left instead of continued
NoHTTPAnnotationBreaks ==
    /\ pc = "extractHTTPInfo" /\ ~CurMethod.http.ext
    /\ stage' = [stage EXCEPT ![Cur] = "Skipped"]
    /\ mi' = Len(services[si + 1])
    /\ pc' = "parseService"
    /\ UNCHANGED <<inputVars, si, rules, serviceRules>>
    /\ UNCHANGED <<bodyVars, authzVars, fieldVars, httpVars, authzResult>>

\* lines 236-245 and 71-73: no google.api.http extension
NoHTTPAnnotation ==
    /\ pc = "extractHTTPInfo" /\ ~CurMethod.http.ext
    /\ Continue
    /\ UNCHANGED <<bodyVars, authzVars, fieldVars, httpVars, authzResult>>

\* lines 236-240 and 257-258
HTTPAnnotation ==
    /\ pc = "extractHTTPInfo" /\ CurMethod.http.ext
    /\ fi' = 0
    /\ pc' = "fieldLoop"
    /\ UNCHANGED <<inputVars, loopVars, bodyVars, authzVars, fieldVars, httpPath, httpMethod,
                   stage, authzResult>>

CurField == HttpRuleFields[fi + 1]

\* lines 262-267: a field that is not set
FieldUnset ==
    /\ pc = "fieldLoop" /\ fi < Len(HttpRuleFields)
    /\ ~Has(CurMethod.http.msg, CurField)
    /\ fi' = fi + 1
    /\ UNCHANGED <<inputVars, pc, loopVars, bodyVars, authzVars, fieldVars, httpPath, httpMethod,
                   stage, authzResult>>

\* lines 269-285: a set field that is no verb
FieldOther ==
    /\ pc = "fieldLoop" /\ fi < Len(HttpRuleFields)
    /\ Has(CurMethod.http.msg, CurField)
    /\ CurField \notin VerbNames
    /\ fi' = fi + 1
    /\ UNCHANGED <<inputVars, pc, loopVars, bodyVars, authzVars, fieldVars, httpPath, httpMethod,
                   stage, authzResult>>

\* lines 269-285: a set verb field, and the return into parseMethod, lines 69-73
FieldVerb ==
    /\ pc = "fieldLoop" /\ fi < Len(HttpRuleFields)
    /\ Has(CurMethod.http.msg, CurField)
    /\ CurField \in VerbNames
    /\ httpPath' = CurMethod.http.msg[CurField]
    /\ httpMethod' = VerbOf(CurField)
    /\ stage' = [stage EXCEPT ![Cur] = "HTTPResolved"]
    /\ pc' = "emit"
    /\ UNCHANGED <<inputVars, loopVars, bodyVars, authzVars, fieldVars, fi, authzResult>>

\* line 288 and lines 71-73
NoHTTPMethod ==
    /\ pc = "fieldLoop" /\ fi >= Len(HttpRuleFields)
    /\ Continue
    /\ UNCHANGED <<bodyVars, authzVars, fieldVars, httpVars, authzResult>>

\* lines 75-80 and 53
EmitRule ==
    /\ pc = "emit"
    /\ serviceRules' = Append(serviceRules,
            [HTTPPath |-> httpPath, HTTPMethod |-> httpMethod,
             Permissions |-> permissions, NoAuthRequired |-> noAuthRequired])
    /\ stage' = [stage EXCEPT ![Cur] = "RuleEmitted"]
    /\ mi' = mi + 1
    /\ pc' = "parseService"
    /\ UNCHANGED <<inputVars, si, rules, bodyVars, authzVars, fieldVars, httpVars, authzResult>>

Next ==
    \/ StartService \/ FinishFile \/ FinishService \/ StartMethod
    \/ ReadFileFails \/ ReadFile
    \/ RpcNotFound \/ RpcFound
    \/ ScanBodyStep \/ BodyUnmatched \/ BodyMatched
    \/ AuthzNotFound \/ AuthzFound
    \/ ScanAuthzStep \/ AuthzScanEnd
    \/ RemoveComments \/ ExtractFields
    \/ NoHTTPAnnotation \/ HTTPAnnotation
    \/ FieldUnset \/ FieldOther \/ FieldVerb \/ NoHTTPMethod
    \/ EmitRule

Spec == Init /\ [][Next]_vars

(***************************************************************************)
(* Properties.                                                             *)
(***************************************************************************)
Terminal == {"Skipped", "RuleEmitted"}
Emitted == rules \o serviceRules

\* 1 + the opening braces - the closing braces of t[a:b]
Depth(t, a, b) ==
    1 + Cardinality({j \in a..(b - 1) : Ch(t, j) = "{"})
      - Cardinality({j \in a..(b - 1) : Ch(t, j) = "}"})

\* C9, while a scan runs: it started at depth 1 just after an opening brace, the count is
\* the depth of what was read, the depth was at least 1 at the position before, the
\* position is within the text and the scan has a next step.
ScanInv ==
    /\ pc \in {"scanBody", "scanAuthz"} => ENABLED Next
    /\ pc = "scanBody" =>
        /\ Ch(content, openBrace) = "{"
        /\ pos \in (openBrace + 1)..Len(content)
        /\ braceCount = Depth(content, openBrace + 1, pos)
        /\ pos > openBrace + 1 => Depth(content, openBrace + 1, pos - 1) >= 1
    /\ pc = "scanAuthz" =>
        /\ Ch(methodBody, authzStartPos - 1) = "{"
        /\ authzCurPos \in authzStartPos..Len(methodBody)
        /\ authzBraceCount = Depth(methodBody, authzStartPos, authzCurPos)
        /\ authzCurPos > authzStartPos => Depth(methodBody, authzStartPos, authzCurPos - 1) >= 1

\* C9, a step of a scan: one lexeme forward, or the scan is left: with the span strictly
\* between the opening brace and the first closing brace that brings the depth to 0, the
\* depth at least 1 at every earlier position, or with the error, which happens exactly
\* when the end of the text is reached at a depth above 0.
ScanExit ==
    /\ (pc = "scanBody" /\ pc' = "findAuthz") =>
        /\ Depth(content, openBrace + 1, pos) = 0
        /\ Ch(content, pos - 1) = "}"
        /\ \A q \in (openBrace + 1)..(pos - 1) : Depth(content, openBrace + 1, q) >= 1
        /\ methodBody' = Slice(content, openBrace + 1, pos - 1)
    /\ (pc = "scanBody" /\ pc' = "parseService") =>
        /\ pos = Len(content)
        /\ Depth(content, openBrace + 1, pos) > 0
        /\ stage'[Cur] = "Skipped"
    /\ (pc = "scanBody" /\ pos = Len(content) /\ Depth(content, openBrace + 1, pos) > 0) =>
        stage'[Cur] = "Skipped"
    /\ (pc = "scanBody" /\ pc' = "scanBody") => pos' = pos + 1
    /\ (pc = "scanAuthz" /\ pc' = "stripComments") =>
        /\ Depth(methodBody, authzStartPos, authzCurPos) = 0
        /\ Ch(methodBody, authzCurPos - 1) = "}"
        /\ \A q \in authzStartPos..(authzCurPos - 1) : Depth(methodBody, authzStartPos, q) >= 1
        /\ authzBody' = Slice(methodBody, authzStartPos, authzCurPos - 1)
    /\ (pc = "scanAuthz" /\ pc' = "parseService") =>
        /\ authzCurPos = Len(methodBody)
        /\ Depth(methodBody, authzStartPos, authzCurPos) > 0
        /\ stage'[Cur] = "Skipped"
    /\ (pc = "scanAuthz" /\ authzCurPos = Len(methodBody)
        /\ Depth(methodBody, authzStartPos, authzCurPos) > 0) => stage'[Cur] = "Skipped"
    /\ (pc = "scanAuthz" /\ pc' = "scanAuthz") => authzCurPos' = authzCurPos + 1

\* C9: the brace scan of a method body and of an authz block keeps ScanInv and is left as
\* ScanExit says; it terminates, since every turn moves the position one lexeme forward,
\* the position never passes the end of the text and the scan always has a next step.
C9_BraceScan == []ScanInv /\ [][ScanExit]_vars

\* C9's case: a method body with nested braces was scanned to its closing brace
C9_Witness ==
    /\ pc = "findAuthz"
    /\ \E q \in (openBrace + 1)..(pos - 1) : Depth(content, openBrace + 1, q) >= 2
    /\ pos < Len(content)

\* the indices of the verb fields that are set, in descriptor order
SetVerbs(msg) ==
    {i \in 1..Len(HttpRuleFields) :
        HttpRuleFields[i] \in DOMAIN msg
        /\ HttpRuleFields[i] \in {"get", "post", "put", "delete", "patch"}}

Upper == [get |-> "GET", post |-> "POST", put |-> "PUT", delete |-> "DELETE", patch |-> "PATCH"]

\* C10: HTTP resolution visits the fields in descriptor order, passes over the fields that
\* are unset or no verb, returns the value and the uppercase verb of the first set verb
\* field, one verb even when several are set, and emits no rule when no verb field is set.
C10_FirstSetVerb ==
    /\ pc = "fieldLoop" => \A i \in 1..fi : i \notin SetVerbs(CurMethod.http.msg)
    /\ pc = "emit" =>
        LET I == SetVerbs(CurMethod.http.msg)
        IN  /\ I # {}
            /\ httpPath = CurMethod.http.msg[HttpRuleFields[Min(I)]]
            /\ httpMethod = Upper[HttpRuleFields[Min(I)]]
    /\ \A k \in 1..NMethods :
        SetVerbs(Methods[k].http.msg) = {} => stage[k] \notin {"HTTPResolved", "RuleEmitted"}
    /\ \A i \in 1..Len(Emitted) : Emitted[i].HTTPMethod \in {"GET", "POST", "PUT", "DELETE", "PATCH"}

\* C10's case: several verb fields and a field that is no verb are set, and one verb is returned
C10_Witness ==
    /\ pc = "emit"
    /\ Cardinality(SetVerbs(CurMethod.http.msg)) >= 2
    /\ "get" \notin DOMAIN CurMethod.http.msg
    /\ "selector" \in DOMAIN CurMethod.http.msg
    /\ httpMethod = "PUT"

\* the rules of a list of methods, in the order of the list
RECURSIVE RulesOf(_)
RulesOf(ms) ==
    IF ms = <<>> THEN <<>>
    ELSE parseMethod(readable, fileText, Head(ms)) \o RulesOf(Tail(ms))

Without(ms, k) == SubSeq(ms, 1, k - 1) \o SubSeq(ms, k + 1, Len(ms))
Processed == Cardinality({k \in 1..NMethods : stage[k] \in Terminal})

\* C3: a method without an HTTP binding gets no rule, and the rules returned are those of
\* the file's other methods, in their order, as if the method were not among the descriptors.
C3_NoBindingNoRule ==
    \A k \in 1..NMethods :
        ~Methods[k].http.ext =>
            /\ stage[k] # "RuleEmitted"
            /\ (pc = "done" => stage[k] = "Skipped" /\ rules = RulesOf(Without(Methods, k)))

\* C3's case: the run is over, a method without a binding was skipped, a later one has its rule
C3_Witness ==
    /\ pc = "done"
    /\ \E k \in 1..(NMethods - 1) :
        /\ ~Methods[k].http.ext /\ authzResult[k].ok
        /\ stage[k] = "Skipped" /\ stage[k + 1] = "RuleEmitted"

\* C4 as stated: for a method that is not the first of its file, the extracted body starts
\* just after the opening brace of its own declaration and is the interior of its own
\* brace pair, whatever the first method holds; a method declared without a body is not
\* found; so what extraction returns for it is what its own interior holds, and without an
\* authz option of its own it is skipped.
C4_OwnBody ==
    (Cur >= 2 /\ Cur <= NMethods) =>
        LET o == gen.own[Cur]
            interior == Slice(fileText, o.open + 1, o.close)
        IN  /\ pc \in {"scanBody", "findAuthz", "scanAuthz", "stripComments", "extractFields"} =>
                /\ o.open # NoMatch
                /\ openBrace = o.open
            /\ pc \in {"findAuthz", "scanAuthz", "stripComments", "extractFields"} =>
                /\ pos - 1 = o.close
                /\ methodBody = interior
            /\ authzResult[Cur].returned =>
                /\ o.open = NoMatch => ~authzResult[Cur].ok
                /\ o.open # NoMatch =>
                    /\ authzResult[Cur].ok = ExtractFromBody(interior).ok
                    /\ authzResult[Cur].permissions = ExtractFromBody(interior).permissions
                    /\ authzResult[Cur].noAuthRequired = ExtractFromBody(interior).noAuthRequired
                    /\ AuthzStartEnd(interior) = NoMatch => ~authzResult[Cur].ok

\* a permission string the serialization format carries unchanged
Plain(p) ==
    /\ p # <<>>
    /\ \A i \in 1..Len(p) : p[i] \notin {",", "]", NL}
    /\ p[1] \notin {DQ, SQ} /\ p[Len(p)] \notin {DQ, SQ}
    /\ \A s \in 0..(Len(p) - 1) :
        ~(/\ Ch(p, s) = "no_auth_required"
          /\ Ch(p, SkipSpace(p, s + 1)) = ":"
          /\ Ch(p, SkipSpace(p, SkipSpace(p, s + 1) + 1)) \in {"true", "false"})

RoundTrips ==
    /\ authzResult[1].ok
    /\ authzResult[1].permissions = gen.decl.perms
    /\ authzResult[1].noAuthRequired = gen.decl.flag
    /\ stage[1] = "RuleEmitted" =>
        /\ Emitted[1].Permissions = gen.decl.perms
        /\ Emitted[1].NoAuthRequired = gen.decl.flag

\* C5 as stated: every pair (permissions, noAuthRequired), serialized as
\* permissions: ["p1", ..., "pn"] no_auth_required: <bool>, is extracted back unchanged.
C5_RoundTripEveryPair ==
    (gen.family = "roundtrip" /\ authzResult[1].returned) => RoundTrips

\* C5 as amended: a pair whose permission strings are not empty, hold no comma, no closing
\* bracket, no line break and nothing of the form no_auth_required:<bool>, and neither
\* begin nor end with a quote, is extracted back unchanged from its serialization.
C5_RoundTripPlain ==
    (/\ gen.family = "roundtrip" /\ authzResult[1].returned
     /\ \A i \in 1..Len(gen.decl.perms) : Plain(gen.decl.perms[i])) => RoundTrips

\* C5's case: a pair of two permission strings and a true flag was extracted back
C5_Witness ==
    /\ gen.family = "roundtrip" /\ pc = "done"
    /\ Len(gen.decl.perms) = 2 /\ gen.decl.perms[1] # gen.decl.perms[2]
    /\ gen.decl.flag
    /\ Len(rules) = 1 /\ rules[1].Permissions = gen.decl.perms /\ rules[1].NoAuthRequired

\* C6 as stated: without a permissions key in the block the permissions are empty, without
\* a no_auth_required key the flag is false, a declared flag is returned as declared, and
\* the emitted rule carries the pair; so no_auth_required: true alone gives ([], true).
C6_Defaults ==
    (gen.family \in {"layout", "decoys"} /\ authzResult[1].returned) =>
        LET d == gen.decl
            r == authzResult[1]
        IN  /\ r.ok
            /\ ~d.hasPerms => r.permissions = <<>>
            /\ ~d.hasFlag => r.noAuthRequired = FALSE
            /\ d.hasFlag => r.noAuthRequired = d.flag
            /\ stage[1] = "RuleEmitted" =>
                /\ Emitted[1].Permissions = r.permissions
                /\ Emitted[1].NoAuthRequired = r.noAuthRequired

\* C1 as stated: a rule emitted for a method that declares permissions: [p1, ..., pn], in
\* any layout of spaces and line breaks and with either quote around each element, carries
\* the permissions [p1, ..., pn].
C1_DeclaredPermissions ==
    (gen.family = "layout" /\ gen.decl.hasPerms /\ stage[1] = "RuleEmitted") =>
        Emitted[1].Permissions = gen.decl.perms

\* the text with every line comment and every block comment removed: a comment starts at
\* the first // or /* and runs to the end of its line or through its */
CommentEnd(t, s) ==
    IF Ch(t, s + 1) = "/"
    THEN (IF FirstOf(t, s, NL) = NoMatch THEN Len(t) ELSE FirstOf(t, s, NL))
    ELSE (IF BlockCommentAt(t, s) = NoMatch THEN Len(t) ELSE BlockCommentAt(t, s))

RECURSIVE DecommentFrom(_, _)
DecommentFrom(t, k) ==
    LET S == {s \in k..(Len(t) - 2) : t[s + 1] = "/" /\ t[s + 2] \in {"/", "*"}}
    IN  IF S = {} THEN Slice(t, k, Len(t))
        ELSE Slice(t, k, Min(S)) \o DecommentFrom(t, CommentEnd(t, Min(S)))

Decomment(t) == DecommentFrom(t, 0)

\* C2 as stated, for the methods extraction succeeds on: the pair extracted from the file
\* is the pair extracted from the file with its comments removed.
C2_CommentsInert ==
    \A k \in 1..NMethods :
        LET ref == extractAuthzFromProtoFile(readable, Decomment(fileText), Methods[k].name)
        IN  (authzResult[k].returned /\ authzResult[k].ok /\ ref.ok) =>
                /\ authzResult[k].permissions = ref.permissions
                /\ authzResult[k].noAuthRequired = ref.noAuthRequired

Allowed ==
    { <<"Pending", "Start">>, <<"Start", "AuthzExtracted">>, <<"AuthzExtracted", "HTTPResolved">>,
      <<"HTTPResolved", "RuleEmitted">>, <<"Start", "Skipped">>, <<"AuthzExtracted", "Skipped">> }

\* whether authz extraction and HTTP resolution both succeed on method k
Both(k) ==
    /\ extractAuthzFromProtoFile(readable, fileText, Methods[k].name).ok
    /\ extractHTTPInfo(Methods[k].http)[1]

\* C7, in every state: there are as many rules as methods that reached RuleEmitted, every
\* rule is whole, a method skipped on an unreadable file failed its extraction, and at the
\* end of the run every method is in Skipped or in RuleEmitted.
AllOrNothing ==
    /\ \A k \in 1..NMethods : (stage[k] = "Skipped" /\ ~readable) => ~authzResult[k].ok
    /\ Len(Emitted) = Cardinality({k \in 1..NMethods : stage[k] = "RuleEmitted"})
    /\ \A i \in 1..Len(Emitted) :
        Emitted[i].HTTPMethod \in {"GET", "POST", "PUT", "DELETE", "PATCH"}
    /\ pc = "done" => \A k \in 1..NMethods : stage[k] \in Terminal

\* C7, in every step: a method moves along Start, AuthzExtracted, HTTPResolved,
\* RuleEmitted or leaves to Skipped, never leaves Skipped or RuleEmitted; it reaches
\* RuleEmitted only if extraction and resolution both succeed on it and Skipped only if one
\* of them fails; the step that skips it appends nothing and hands the loop of
\* parseService its next method, the step that emits appends one rule.
StageStep ==
    \A k \in 1..NMethods :
        /\ stage[k] \in Terminal => stage'[k] = stage[k]
        /\ stage'[k] # stage[k] => <<stage[k], stage'[k]>> \in Allowed
        /\ (stage'[k] # stage[k] /\ stage'[k] = "Skipped") =>
            /\ ~Both(k)
            /\ rules' = rules /\ serviceRules' = serviceRules
            /\ pc' = "parseService" /\ mi' = mi + 1 /\ si' = si
        /\ (stage'[k] # stage[k] /\ stage'[k] = "RuleEmitted") =>
            /\ Both(k)
            /\ Len(serviceRules') = Len(serviceRules) + 1 /\ rules' = rules

\* C7: a rule is emitted for a method if and only if authz extraction and HTTP resolution
\* both succeed; on any failure, a file-read failure included, the method ends in Skipped
\* with nothing appended and the next method is processed; Skipped and RuleEmitted are
\* never left.
C7_AllOrNothing == []AllOrNothing /\ [][StageStep]_vars

\* C7's case: the run is over with a method skipped and a method with its rule
C7_Witness ==
    /\ pc = "done"
    /\ \E k \in 1..NMethods : stage[k] = "Skipped" /\ authzResult[k].ok
    /\ \E k \in 1..NMethods : stage[k] = "Skipped" /\ ~authzResult[k].ok
    /\ \E k \in 1..NMethods : stage[k] = "RuleEmitted"

\* C8: between two methods the rules collected so far are the rules of the methods
\* processed so far, one at most per method, in the declaration order of the services
\* and of the methods in each; at the end of the run they are the rules of all the methods
\* of the file.
C8_DeclarationOrder ==
    /\ \A k \in 1..NMethods : stage[k] \in Terminal <=> k <= Processed
    /\ pc \in {"parseFile", "parseService", "done"} =>
        Emitted = RulesOf(SubSeq(Methods, 1, Processed))
    /\ Len(Emitted) <= Processed
    /\ pc = "done" => Processed = NMethods /\ serviceRules = <<>> /\ rules = RulesOf(Methods)

\* C8's case: the run is over, the rules of the first and of the last of three methods,
\* which stand in two services, were collected in that order, the second was skipped
C8_Witness ==
    /\ pc = "done" /\ NMethods = 3
    /\ Len(services[1]) = 1
    /\ stage = <<"RuleEmitted", "Skipped", "RuleEmitted">>
    /\ Len(rules) = 2 /\ rules[1].HTTPPath = "/get" /\ rules[2].HTTPPath = "/list"

====
